---- MODULE Spec2Model ----
(***************************************************************************)
(* PeerWatcher of the Habitat supervisor                                   *)
(* (components/sup/src/manager/peer_watcher.rs).                           *)
(*                                                                         *)
(* Three processes share the state:                                        *)
(*   - the consumer, which owns the PeerWatcher handle and calls run(),    *)
(*     has_fs_events() and get_members() one after the other;              *)
(*   - the worker thread spawned by setup_watcher(), which loops over      *)
(*     file_watcher_loop_body() and, inside the backend's run(), fires     *)
(*     the PeerCallbacks hooks;                                            *)
(*   - the environment: the filesystem entry at the watched path and the   *)
(*     name service behind ToSocketAddrs.                                  *)
(* have_events is the Arc<AtomicBool> shared by the handle and the hooks.  *)
(***************************************************************************)
EXTENDS Integers, Sequences, FiniteSets, TLC

\* ---------------------------------------------------------------- bounds

\* Longest peer file, in lines.
MaxLines == 2

\* ------------------------------------------------------------- constants

\* GossipListenAddr::DEFAULT_PORT
DEFAULT_PORT == 9638

\* ------------------------------------------------------------ file lines

\* A raw line of the file is a sequence of text tokens; ":" is the colon
\* character. InvalidUtf8 stands for a line whose bytes are not UTF-8.
COLON == ":"

InvalidUtf8 == <<"\\xFF">>

LineIpPort == <<"1.2.3.4", COLON, "5">>

LineHost == <<"peer.example">>

LineBlank == <<>>

RawLines == {LineIpPort, LineHost, LineBlank, InvalidUtf8}

\* IP literals that parse without a lookup, and the records the name
\* service holds when it answers.
IpLiterals == {"1.2.3.4"}

DnsRecords(host) == IF host = "peer.example" THEN <<"10.0.0.1", "10.0.0.2">> ELSE <<>>

\* Port numbers that occur as text in the lines above.
PortTexts == {5, DEFAULT_PORT}

\* ------------------------------------------------------- pure functions

\* line.find(':').is_some()
HasColon(line) == \E i \in 1..Len(line) : line[i] = COLON

\* The peer_addr of a line: the line itself when it holds a colon, else
\* format!("{}:{}", line, GossipListenAddr::DEFAULT_PORT).
PeerAddr(line) == IF HasColon(line) THEN line ELSE line \o <<COLON, ToString(DEFAULT_PORT)>>

\* One item of reader.lines(): Ok(line), or Err for bytes that are not UTF-8.
LinesItem(raw) == IF raw = InvalidUtf8 THEN [ok |-> FALSE, line |-> <<>>] ELSE [ok |-> TRUE, line |-> raw]

\* str::rfind(':'): the index of the last colon, 0 when there is none.
LastColon(s) == IF HasColon(s) THEN CHOOSE i \in 1..Len(s) : s[i] = COLON /\ \A j \in (i + 1)..Len(s) : s[j] # COLON ELSE 0

\* u16 parse of the port text.
ParsePort(text) == IF \E p \in PortTexts : ToString(p) = text THEN [ok |-> TRUE, port |-> CHOOSE p \in PortTexts : ToString(p) = text] ELSE [ok |-> FALSE, port |-> 0]

\* The addresses of a host: an IP literal parses to itself; anything else
\* (the empty host of a blank line included) goes to the name service,
\* which answers with DnsRecords while it is up and with nothing otherwise.
LookupHost(host, up) == IF host \in IpLiterals THEN <<host>> ELSE IF up THEN DnsRecords(host) ELSE <<>>

\* The socket addresses of ip list ips on one port.
WithPort(ips, port) == [i \in 1..Len(ips) |-> [ip |-> ips[i], port |-> port]]

\* A variant of ToSocketAddrs that returns Ok with no address when the
\* host has none.
ToSocketAddrs_OkWithoutAddress(peer_addr, up) ==
    LET c == LastColon(peer_addr)
        hostToks == SubSeq(peer_addr, 1, c - 1)
        portToks == SubSeq(peer_addr, c + 1, Len(peer_addr))
        host == IF Len(hostToks) = 0 THEN "" ELSE hostToks[1]
        port == IF Len(portToks) = 1 THEN ParsePort(portToks[1]) ELSE [ok |-> FALSE, port |-> 0]
        ips == IF Len(hostToks) > 1 THEN <<>> ELSE LookupHost(host, up)
    IN  IF c = 0 \/ ~port.ok
        THEN [ok |-> FALSE, addrs |-> <<>>]
        ELSE [ok |-> TRUE, addrs |-> WithPort(ips, port.port)]

\* <str as ToSocketAddrs>::to_socket_addrs: split at the last colon, parse
\* the port, resolve the host. Ok carries at least one address.
ToSocketAddrs(peer_addr, up) ==
    LET c == LastColon(peer_addr)
        hostToks == SubSeq(peer_addr, 1, c - 1)
        portToks == SubSeq(peer_addr, c + 1, Len(peer_addr))
        host == IF Len(hostToks) = 0 THEN "" ELSE hostToks[1]
        port == IF Len(portToks) = 1 THEN ParsePort(portToks[1]) ELSE [ok |-> FALSE, port |-> 0]
        ips == IF Len(hostToks) > 1 THEN <<>> ELSE LookupHost(host, up)
    IN  IF c = 0 \/ ~port.ok \/ ips = <<>>
        THEN [ok |-> FALSE, addrs |-> <<>>]
        ELSE [ok |-> TRUE, addrs |-> WithPort(ips, port.port)]

\* A variant of FirstAddr that takes the last resolved address.
FirstAddr_Last(addrs) == addrs[Len(addrs)]

\* let addr: SocketAddr = addrs[0];
FirstAddr(addrs) == addrs[1]

\* A variant of MemberOf that leaves swim_port at the default port.
MemberOf_DefaultSwimPort(addr) == [id |-> "", address |-> addr.ip, swim_port |-> DEFAULT_PORT, gossip_port |-> addr.port]

\* Member { address, swim_port, gossip_port, ..Default::default() }
MemberOf(addr) == [id |-> "", address |-> addr.ip, swim_port |-> addr.port, gossip_port |-> addr.port]

\* Results of the handle's operations.
Ok(ms) == [tag |-> "Ok", members |-> ms]

Err(kind) == [tag |-> kind]

NoRet == [tag |-> "None"]

\* ----------------------------------------------------------------- state

VARIABLES
    fs,             \* the filesystem entry at the watched path: [kind, lines]
    notify,         \* the change the backend has seen and not yet reported
    dns_up,         \* whether the name service answers
    path_existed,   \* history: the path has named a file or directory
    have_events,    \* the shared AtomicBool
    h_pc,           \* the consumer's position in the handle's operations
    reader,         \* get_members: the BufReader over the opened file
    pos,            \* get_members: lines the iterator has consumed
    members,        \* get_members: the Vec<Member> built so far
    ret,            \* the value the last finished operation returned
    w_pc,           \* the worker thread's position
    checked_thread, \* the worker's liveliness token of this iteration
    arch_type,      \* file_watcher_loop_body: the HAB_STUDIO_HOST_ARCH read
    watcher_type,   \* file_watcher_loop_body: Option<FileWatcherType>
    backend,        \* file_watcher_loop_body: the constructor the match called
    watcher,        \* file_watcher_loop_body: the constructor's result
    unregistered,   \* statuses the worker has unregistered with
    clean,          \* history: file and name service unchanged since this call began
    prev_ret,       \* history: what the last such get_members call returned
    compared        \* history: the last return had such a call before it

env_vars == <<fs, notify, dns_up, path_existed>>

handle_vars == <<h_pc, reader, pos, members, ret>>

worker_vars == <<w_pc, checked_thread, arch_type, watcher_type, backend, watcher, unregistered>>

hist_vars == <<clean, prev_ret, compared>>

vars == <<fs, notify, dns_up, path_existed, have_events, h_pc, reader, pos, members, ret, w_pc, checked_thread, arch_type, watcher_type, backend, watcher, unregistered, clean, prev_ret, compared>>

Absent == [kind |-> "absent", lines |-> <<>>]

Directory == [kind |-> "dir", lines |-> <<>>]

RegularFile(lines) == [kind |-> "file", lines |-> lines]

NoReader == [kind |-> "none", lines |-> <<>>]

\* Path::is_file()
IsFile(entry) == entry.kind = "file"

\* Values of HAB_STUDIO_HOST_ARCH: not set, the one recognized value, another.
ArchValues == {"unset", "aarch64-macos", "x86_64-linux"}

\* Outcomes of poll_file_watcher / default_file_watcher.
ConstructOutcomes == {"Ok", "NotifyError", "OtherError"}

\* Before run(): the path may already name a file, nothing is spawned.
Init ==
    /\ fs \in {Absent, RegularFile(<<>>)}
    /\ notify = "none"
    /\ dns_up \in BOOLEAN
    /\ path_existed = (fs # Absent)
    /\ have_events = FALSE
    /\ h_pc = "uninit"
    /\ reader = NoReader
    /\ pos = 0
    /\ members = <<>>
    /\ ret = NoRet
    /\ w_pc = "unspawned"
    /\ checked_thread = "none"
    /\ arch_type = "unset"
    /\ watcher_type = "None"
    /\ backend = "none"
    /\ watcher = "None"
    /\ unregistered = <<>>
    /\ clean = FALSE
    /\ prev_ret = NoRet
    /\ compared = FALSE

\* ---------------------------------------------------------- the consumer

\* History of consecutive get_members calls, kept beside the program's state.
\* A change of the file or of the name service forgets the earlier result
\* and taints the call in progress.
Forget == clean' = FALSE /\ prev_ret' = NoRet /\ compared' = FALSE

\* A get_members call returns r: it is remembered when nothing changed
\* while it ran, and it counts as compared when such a call came before it.
Remember(began_clean, r) ==
    /\ prev_ret' = IF began_clean THEN r ELSE NoRet
    /\ compared' = (began_clean /\ prev_ret # NoRet)

\* PeerWatcher::run -> setup_watcher: a fresh flag, then the thread is
\* spawned; a failed spawn is returned as the error and leaves no handle.
Run(spawned) ==
    /\ h_pc = "uninit"
    /\ have_events' = FALSE
    /\ IF spawned
       THEN h_pc' = "idle" /\ w_pc' = "loop" /\ ret' = NoRet
       ELSE h_pc' = "failed" /\ w_pc' = w_pc /\ ret' = Err("Io")
    /\ UNCHANGED <<env_vars, reader, pos, members, checked_thread, arch_type, watcher_type, backend, watcher, unregistered, hist_vars>>

\* PeerWatcher::has_fs_events
HasFsEvents ==
    /\ h_pc = "idle"
    /\ ret' = [tag |-> "Bool", val |-> have_events]
    /\ h_pc' = "done"
    /\ UNCHANGED <<env_vars, have_events, reader, pos, members, worker_vars, hist_vars>>

\* A variant of GmIsFile that returns the empty Vec without the store.
GmIsFile_NoStore ==
    /\ h_pc = "idle"
    /\ IF ~IsFile(fs)
       THEN ret' = Ok(<<>>) /\ h_pc' = "done" /\ Remember(TRUE, Ok(<<>>))
       ELSE ret' = ret /\ h_pc' = "open" /\ UNCHANGED <<prev_ret, compared>>
    /\ clean' = TRUE
    /\ UNCHANGED <<env_vars, have_events, reader, pos, members, worker_vars>>

\* A variant of GmIsFile that hands the worker's end to the caller: once
\* the worker has terminated the call returns an error.
GmIsFile_WorkerErrorSurfaces ==
    /\ h_pc = "idle"
    /\ IF w_pc = "terminated"
       THEN have_events' = have_events /\ ret' = Err("Io") /\ h_pc' = "done" /\ Remember(TRUE, Err("Io"))
       ELSE IF ~IsFile(fs)
       THEN have_events' = FALSE /\ ret' = Ok(<<>>) /\ h_pc' = "done" /\ Remember(TRUE, Ok(<<>>))
       ELSE have_events' = have_events /\ ret' = ret /\ h_pc' = "open" /\ UNCHANGED <<prev_ret, compared>>
    /\ clean' = TRUE
    /\ UNCHANGED <<env_vars, reader, pos, members, worker_vars>>

\* get_members, `if !self.path.is_file()`: store false and return the empty
\* Vec, or go on to open the file.
GmIsFile ==
    /\ h_pc = "idle"
    /\ IF ~IsFile(fs)
       THEN have_events' = FALSE /\ ret' = Ok(<<>>) /\ h_pc' = "done" /\ Remember(TRUE, Ok(<<>>))
       ELSE have_events' = have_events /\ ret' = ret /\ h_pc' = "open" /\ UNCHANGED <<prev_ret, compared>>
    /\ clean' = TRUE
    /\ UNCHANGED <<env_vars, reader, pos, members, worker_vars>>

\* What File::open and the BufReader's first fill can give for the entry the
\* path names now. A regular file gives its lines. A missing entry fails the
\* open. A directory fails the open on Windows and opens on Unix, where
\* every later read fails.
OpenOutcomes(entry) ==
    IF entry.kind = "file" THEN {[tag |-> "Ok", reader |-> RegularFile(entry.lines)]}
    ELSE IF entry.kind = "dir" THEN {[tag |-> "Io", reader |-> NoReader], [tag |-> "Ok", reader |-> Directory]}
    ELSE {[tag |-> "Io", reader |-> NoReader]}

\* A variant of GmOpen that treats a failed open as a file that is not
\* there: it returns the empty Vec.
GmOpen_FailureIsEmpty ==
    /\ h_pc = "open"
    /\ \E o \in OpenOutcomes(fs) :
          IF o.tag = "Ok"
          THEN reader' = o.reader /\ h_pc' = "lines" /\ ret' = ret /\ UNCHANGED <<prev_ret, compared>>
          ELSE reader' = reader /\ h_pc' = "done" /\ ret' = Ok(<<>>) /\ Remember(clean, Ok(<<>>))
    /\ UNCHANGED <<env_vars, have_events, pos, members, worker_vars, clean>>

\* get_members, File::open(&self.path).map_err(Error::Io)?
GmOpen ==
    /\ h_pc = "open"
    /\ \E o \in OpenOutcomes(fs) :
          IF o.tag = "Ok"
          THEN reader' = o.reader /\ h_pc' = "lines" /\ ret' = ret /\ UNCHANGED <<prev_ret, compared>>
          ELSE reader' = reader /\ h_pc' = "done" /\ ret' = Err("Io") /\ Remember(clean, Err("Io"))
    /\ UNCHANGED <<env_vars, have_events, pos, members, worker_vars, clean>>

\* A variant of ProcessLine that skips a line that does not resolve.
ProcessLine_SkipUnresolved(raw, up) ==
    LET item == LinesItem(raw)
        addrs == ToSocketAddrs(PeerAddr(item.line), up)
    IN  IF ~item.ok \/ ~addrs.ok THEN [act |-> "skip", member |-> <<>>]
        ELSE [act |-> "push", member |-> MemberOf(FirstAddr(addrs.addrs))]

\* A variant of ProcessLine without flatten(): an Err item goes on to the
\* resolution as an empty line.
ProcessLine_NoFlatten(raw, up) ==
    LET item == LinesItem(raw)
        addrs == ToSocketAddrs(PeerAddr(item.line), up)
    IN  IF ~addrs.ok THEN [act |-> "return", member |-> <<>>]
        ELSE [act |-> "push", member |-> MemberOf(FirstAddr(addrs.addrs))]

\* One pass of the `for line in reader.lines().flatten()` body for one raw
\* line: flatten() drops an Err item; a line that does not resolve returns
\* the NameLookup error; a line that resolves pushes one Member built
\* from addrs[0], and indexing an empty Vec panics.
ProcessLine(raw, up) ==
    LET item == LinesItem(raw)
        addrs == ToSocketAddrs(PeerAddr(item.line), up)
    IN  IF ~item.ok THEN [act |-> "skip", member |-> <<>>]
        ELSE IF ~addrs.ok THEN [act |-> "return", member |-> <<>>]
        ELSE IF addrs.addrs = <<>> THEN [act |-> "panic", member |-> <<>>]
        ELSE [act |-> "push", member |-> MemberOf(FirstAddr(addrs.addrs))]

\* get_members, the loop over a regular file's lines.
GmNextLine ==
    /\ h_pc = "lines"
    /\ reader.kind = "file"
    /\ pos < Len(reader.lines)
    /\ LET step == ProcessLine(reader.lines[pos + 1], dns_up)
       IN  CASE step.act = "skip" ->
                  pos' = pos + 1 /\ UNCHANGED <<members, ret, h_pc, prev_ret, compared>>
             [] step.act = "push" ->
                  pos' = pos + 1 /\ members' = Append(members, step.member) /\ UNCHANGED <<ret, h_pc, prev_ret, compared>>
             [] step.act = "return" ->
                  ret' = Err("NameLookup") /\ h_pc' = "done" /\ Remember(clean, Err("NameLookup")) /\ UNCHANGED <<pos, members>>
             [] step.act = "panic" ->
                  h_pc' = "panicked" /\ UNCHANGED <<pos, members, ret, prev_ret, compared>>
    /\ UNCHANGED <<env_vars, have_events, reader, worker_vars, clean>>

\* get_members, the loop over an opened directory: every read fails, lines()
\* yields the error again and flatten() drops it, so the loop goes round
\* without consuming anything.
GmReadError ==
    /\ h_pc = "lines"
    /\ reader.kind = "dir"
    /\ UNCHANGED vars

\* A variant of GmStoreAndReturn that returns the members without the store.
GmStoreAndReturn_NoStore ==
    /\ h_pc = "lines"
    /\ reader.kind = "file"
    /\ pos = Len(reader.lines)
    /\ ret' = Ok(members)
    /\ h_pc' = "done"
    /\ Remember(clean, Ok(members))
    /\ UNCHANGED <<env_vars, have_events, reader, pos, members, worker_vars, clean>>

\* A variant of GmStoreAndReturn that returns the members only when the
\* flag was raised, and nothing otherwise.
GmStoreAndReturn_OnlyWhenEvents ==
    /\ h_pc = "lines"
    /\ reader.kind = "file"
    /\ pos = Len(reader.lines)
    /\ have_events' = FALSE
    /\ ret' = Ok(IF have_events THEN members ELSE <<>>)
    /\ h_pc' = "done"
    /\ Remember(clean, Ok(IF have_events THEN members ELSE <<>>))
    /\ UNCHANGED <<env_vars, reader, pos, members, worker_vars, clean>>

\* get_members, after the loop: store false and return the members.
GmStoreAndReturn ==
    /\ h_pc = "lines"
    /\ reader.kind = "file"
    /\ pos = Len(reader.lines)
    /\ have_events' = FALSE
    /\ ret' = Ok(members)
    /\ h_pc' = "done"
    /\ Remember(clean, Ok(members))
    /\ UNCHANGED <<env_vars, reader, pos, members, worker_vars, clean>>

\* The consumer takes the returned value; the call's locals are dropped.
Return ==
    /\ h_pc = "done"
    /\ h_pc' = "idle"
    /\ reader' = NoReader
    /\ pos' = 0
    /\ members' = <<>>
    /\ ret' = NoRet
    /\ UNCHANGED <<env_vars, have_events, worker_vars, hist_vars>>

\* A variant of DropHandle in which the drop ends the worker thread.
DropHandle_StopsWorker ==
    /\ h_pc = "idle"
    /\ h_pc' = "dropped"
    /\ w_pc' = "terminated"
    /\ checked_thread' = "none"
    /\ UNCHANGED <<env_vars, have_events, reader, pos, members, ret, arch_type, watcher_type, backend, watcher, unregistered, hist_vars>>

\* The consumer drops the PeerWatcher: the struct has no Drop impl, its
\* fields are the path and one clone of the Arc; the thread was spawned
\* detached and owns its own clone.
DropHandle ==
    /\ h_pc = "idle"
    /\ h_pc' = "dropped"
    /\ UNCHANGED <<env_vars, have_events, reader, pos, members, ret, worker_vars, hist_vars>>

Consumer == (\E spawned \in BOOLEAN : Run(spawned)) \/ HasFsEvents \/ GmIsFile \/ GmOpen \/ GmNextLine \/ GmReadError \/ GmStoreAndReturn \/ Return \/ DropHandle

\* ------------------------------------------------------------ the worker

\* A variant of MarkThreadAlive that starts the iteration without registering.
MarkThreadAlive_NoRegister ==
    /\ w_pc = "loop"
    /\ w_pc' = "body"
    /\ arch_type' = "unset"
    /\ watcher_type' = "None"
    /\ backend' = "none"
    /\ watcher' = "None"
    /\ UNCHANGED <<env_vars, have_events, handle_vars, checked_thread, unregistered, hist_vars>>

\* A variant of MarkThreadAlive in which each iteration starts from a
\* lowered flag.
MarkThreadAlive_FreshFlag ==
    /\ w_pc = "loop"
    /\ checked_thread' = "alive"
    /\ w_pc' = "body"
    /\ arch_type' = "unset"
    /\ watcher_type' = "None"
    /\ backend' = "none"
    /\ watcher' = "None"
    /\ have_events' = FALSE
    /\ UNCHANGED <<env_vars, handle_vars, unregistered, hist_vars>>

\* loop { let checked_thread = liveliness_checker::mark_thread_alive(); ...
MarkThreadAlive ==
    /\ w_pc = "loop"
    /\ checked_thread' = "alive"
    /\ w_pc' = "body"
    /\ arch_type' = "unset"
    /\ watcher_type' = "None"
    /\ backend' = "none"
    /\ watcher' = "None"
    /\ UNCHANGED <<env_vars, have_events, handle_vars, unregistered, hist_vars>>

\* A variant of WatcherTypeFor in which every set value selects polling.
WatcherTypeFor_AnySetPolls(arch) == IF arch = "unset" THEN "None" ELSE "PollWatcherType"

\* file_watcher_loop_body: the watcher type for a value of HAB_STUDIO_HOST_ARCH.
WatcherTypeFor(arch) ==
    IF arch = "unset" THEN "None"
    ELSE IF arch = "aarch64-macos" THEN "PollWatcherType"
    ELSE "NotifyWatcherType"

\* file_watcher_loop_body, `match watcher_type`: the constructor each
\* watcher type leads to.
BackendFor(type) == IF type = "PollWatcherType" THEN "poll_file_watcher" ELSE "default_file_watcher"

\* A variant of PollArm that retries after every construction failure.
PollArm_AlwaysRetries(res) == IF res = "Ok" THEN "run" ELSE "false"

\* file_watcher_loop_body, the PollWatcherType arm: what the body does with
\* the result of poll_file_watcher.
PollArm(res) ==
    IF res = "Ok" THEN "run"
    ELSE IF res = "NotifyError" THEN "false"
    ELSE "true"

\* A variant of DefaultArm that ends the thread on a NotifyError too.
DefaultArm_NotifyFatal(res) == IF res = "Ok" THEN "run" ELSE "true"

\* file_watcher_loop_body, the `_` arm: what the body does with the result
\* of default_file_watcher.
DefaultArm(res) ==
    IF res = "Ok" THEN "run"
    ELSE IF res = "NotifyError" THEN "false"
    ELSE "true"

\* file_watcher_loop_body up to the backend's run(): read the environment,
\* construct the backend, and either enter run(), return false (the loop
\* goes round) or return true (the loop breaks and unregisters with Ok).
\* What the body read and got stays visible until the next iteration starts.
FileWatcherLoopBody(arch, res) ==
    /\ w_pc = "body"
    /\ arch_type' = arch
    /\ watcher_type' = WatcherTypeFor(arch)
    /\ backend' = BackendFor(WatcherTypeFor(arch))
    /\ watcher' = res
    /\ LET decision == IF BackendFor(WatcherTypeFor(arch)) = "poll_file_watcher" THEN PollArm(res) ELSE DefaultArm(res)
       IN  CASE decision = "run" ->
                  w_pc' = "run" /\ UNCHANGED <<checked_thread, unregistered, hist_vars>>
             [] decision = "false" ->
                  w_pc' = "loop" /\ checked_thread' = "none" /\ UNCHANGED unregistered
             [] decision = "true" ->
                  w_pc' = "terminated" /\ checked_thread' = "none" /\ unregistered' = Append(unregistered, "Ok")
    /\ UNCHANGED <<env_vars, have_events, handle_vars, hist_vars>>

\* A variant of Hook in which file_disappeared does not store.
Hook_NotOnDisappear(kind) ==
    /\ w_pc = "run"
    /\ notify = kind
    /\ have_events' = (have_events \/ kind # "disappeared")
    /\ notify' = "none"
    /\ UNCHANGED <<fs, dns_up, path_existed, handle_vars, worker_vars, hist_vars>>

\* A variant of Hook in which a backend outlives the worker's loop and
\* still reports.
Hook_AfterStop(kind) ==
    /\ w_pc \in {"run", "terminated"}
    /\ notify = kind
    /\ have_events' = TRUE
    /\ notify' = "none"
    /\ UNCHANGED <<fs, dns_up, path_existed, handle_vars, worker_vars, hist_vars>>

\* impl Callbacks for PeerCallbacks: the backend, inside run(), reports the
\* change it has seen through the hook of that kind.
Hook(kind) ==
    /\ w_pc = "run"
    /\ notify = kind
    /\ have_events' = TRUE
    /\ notify' = "none"
    /\ UNCHANGED <<fs, dns_up, path_existed, handle_vars, worker_vars, hist_vars>>

FileAppeared == Hook("appeared")

FileModified == Hook("modified")

FileDisappeared == Hook("disappeared")

\* A variant of WatcherRunReturns that raises the flag when the backend stops.
WatcherRunReturns_Signals(res) ==
    /\ w_pc = "run"
    /\ res \in {"Ok", "Err"}
    /\ w_pc' = "loop"
    /\ checked_thread' = "none"
    /\ have_events' = TRUE
    /\ UNCHANGED <<env_vars, handle_vars, arch_type, watcher_type, backend, watcher, unregistered, hist_vars>>

\* watcher.run() returns, with an error or without: the body returns false.
WatcherRunReturns(res) ==
    /\ w_pc = "run"
    /\ res \in {"Ok", "Err"}
    /\ w_pc' = "loop"
    /\ checked_thread' = "none"
    /\ UNCHANGED <<env_vars, have_events, handle_vars, arch_type, watcher_type, backend, watcher, unregistered, hist_vars>>

Worker == MarkThreadAlive \/ (\E arch \in ArchValues, res \in ConstructOutcomes : FileWatcherLoopBody(arch, res)) \/ FileAppeared \/ FileModified \/ FileDisappeared \/ (\E res \in {"Ok", "Err"} : WatcherRunReturns(res))

\* ------------------------------------------------------- the environment

\* An empty regular file is created at the path.
FsCreate ==
    /\ fs.kind = "absent"
    /\ fs' = RegularFile(<<>>)
    /\ notify' = "appeared"
    /\ path_existed' = TRUE
    /\ Forget
    /\ UNCHANGED <<dns_up, have_events, handle_vars, worker_vars>>

\* A line is appended to the file.
FsAppend(raw) ==
    /\ fs.kind = "file"
    /\ Len(fs.lines) < MaxLines
    /\ fs' = RegularFile(Append(fs.lines, raw))
    /\ notify' = "modified"
    /\ Forget
    /\ UNCHANGED <<dns_up, path_existed, have_events, handle_vars, worker_vars>>

\* The file is truncated.
FsTruncate ==
    /\ fs.kind = "file"
    /\ fs.lines # <<>>
    /\ fs' = RegularFile(<<>>)
    /\ notify' = "modified"
    /\ Forget
    /\ UNCHANGED <<dns_up, path_existed, have_events, handle_vars, worker_vars>>

\* A directory is made at the path.
FsMkdir ==
    /\ fs.kind = "absent"
    /\ fs' = Directory
    /\ notify' = "appeared"
    /\ path_existed' = TRUE
    /\ Forget
    /\ UNCHANGED <<dns_up, have_events, handle_vars, worker_vars>>

\* The entry at the path is removed.
FsRemove ==
    /\ fs.kind # "absent"
    /\ fs' = Absent
    /\ notify' = "disappeared"
    /\ Forget
    /\ UNCHANGED <<dns_up, path_existed, have_events, handle_vars, worker_vars>>

\* The name service goes down or comes back.
DnsChange ==
    /\ dns_up' = ~dns_up
    /\ Forget
    /\ UNCHANGED <<fs, notify, path_existed, have_events, handle_vars, worker_vars>>

Environment == FsCreate \/ (\E raw \in RawLines : FsAppend(raw)) \/ FsTruncate \/ FsMkdir \/ FsRemove \/ DnsChange

\* --------------------------------------------------------- specification

Next == Consumer \/ Worker \/ Environment

Spec == Init /\ [][Next]_vars

\* The steps of a get_members call in progress.
CallStep == GmOpen \/ GmNextLine \/ GmReadError \/ GmStoreAndReturn

\* ---------------------------------------------------------------- claims

\* A get_members call returns in this step.
GmReturns == h_pc # "done" /\ h_pc' = "done" /\ ret'.tag # "Bool"

\* The line the loop of get_members is about to take.
NextRaw == reader.lines[pos + 1]

\* The consumer is inside the loop over a regular file with a line left.
AtLine == h_pc = "lines" /\ reader.kind = "file" /\ pos < Len(reader.lines)

\* get_members has returned from a call that read a regular file.
ReadDone == h_pc = "done" /\ reader.kind = "file"

\* C1 as stated: whatever get_members returns, members, the empty sequence
\* or an error, the Change Signal reads false when the call returns.
C1_ClearedAfterAnyCall == [][GmReturns => have_events' = FALSE]_vars

\* C1 amended: a get_members call that returns Ok (members or the empty
\* sequence) leaves the Change Signal false at its return; a call that
\* returns an error (I/O or name lookup) leaves the Change Signal as it was.
C1_ClearedAfterOk ==
    [][GmReturns => IF ret'.tag = "Ok" THEN have_events' = FALSE ELSE have_events' = have_events]_vars

\* C1 witness: a call returned members and the flag is false although the
\* backend has reported every change of the file.
C1_Witness == ReadDone /\ ret.tag = "Ok" /\ ret.members # <<>> /\ notify = "none" /\ ~have_events

\* C2: when the line get_members takes next is readable and does not
\* resolve, the call returns the name-lookup error in that step, at every
\* position of the line and whatever the earlier lines gave; the error
\* carries no members.
C2_UnresolvedLineAborts ==
    [][(AtLine /\ LinesItem(NextRaw).ok /\ ~ToSocketAddrs(PeerAddr(NextRaw), dns_up).ok /\ handle_vars' # handle_vars)
          => (h_pc' = "done" /\ ret' = Err("NameLookup"))]_vars

\* C2 witness: the name-lookup error was returned at the second line, after
\* the first line had given a member.
C2_Witness == ReadDone /\ ret = Err("NameLookup") /\ pos = 1 /\ Len(members) = 1

\* The member the test with_file expects of a line: the first address the
\* line resolves to, its port in both port fields, an empty id.
ExpectedMember(raw) ==
    IF raw = LineIpPort THEN [id |-> "", address |-> "1.2.3.4", swim_port |-> 5, gossip_port |-> 5]
    ELSE IF raw = LineHost THEN [id |-> "", address |-> "10.0.0.1", swim_port |-> DEFAULT_PORT, gossip_port |-> DEFAULT_PORT]
    ELSE [id |-> "", address |-> "", swim_port |-> 0, gossip_port |-> 0]

\* C3: when get_members returns Ok for a file whose lines are all readable,
\* it returns exactly one member per line, the i-th built from the first
\* address of the i-th line; an empty file gives the empty sequence; and
\* every line that resolves appends its member and lets the loop go on.
C3_OneMemberPerLine ==
    /\ []((ReadDone /\ ret.tag = "Ok" /\ \A i \in 1..Len(reader.lines) : LinesItem(reader.lines[i]).ok)
            => /\ Len(ret.members) = Len(reader.lines)
               /\ \A i \in 1..Len(reader.lines) : ret.members[i] = ExpectedMember(reader.lines[i]))
    /\ [][(AtLine /\ LinesItem(NextRaw).ok /\ ToSocketAddrs(PeerAddr(NextRaw), dns_up).ok /\ handle_vars' # handle_vars)
            => (h_pc' = "lines" /\ pos' = pos + 1 /\ members' = Append(members, ExpectedMember(NextRaw)))]_vars

\* C3 witness: two different lines, one of them a host with two addresses,
\* gave two members.
C3_Witness == ReadDone /\ ret.tag = "Ok" /\ reader.lines = <<LineHost, LineIpPort>>

\* C4 as stated: a file that holds only blank or unreadable lines gives the
\* empty sequence, not an error.
C4_BlankOrUnreadableSkipped ==
    (ReadDone /\ \A i \in 1..Len(reader.lines) : reader.lines[i] \in {LineBlank, InvalidUtf8})
        => ret = Ok(<<>>)

\* The readable lines of a file.
Readable(lines) == {i \in 1..Len(lines) : LinesItem(lines[i]).ok}

\* C4 amended: unreadable (not UTF-8) lines are silently skipped, they give
\* no member and no error, so a file that holds only unreadable lines gives
\* the empty sequence; a blank line is not skipped, it goes to the
\* resolution like every readable line, so an Ok result holds one member
\* for each readable line, blank ones included.
C4_UnreadableSkipped ==
    ReadDone
        => /\ (\A i \in 1..Len(reader.lines) : reader.lines[i] = InvalidUtf8) => ret = Ok(<<>>)
           /\ ret.tag = "Ok" => Len(ret.members) = Cardinality(Readable(reader.lines))

\* C4 witness: a file of unreadable lines only gave Ok with no member.
C4_Witness == ReadDone /\ reader.lines = <<InvalidUtf8, InvalidUtf8>> /\ ret = Ok(<<>>)

\* C5: a get_members call made while the path names no regular file stores
\* false and returns the empty sequence; and while the path has never
\* existed, from run() on, the flag is false and every operation returns
\* the empty sequence or false.
C5_NoFileGivesEmpty ==
    /\ [][(h_pc = "idle" /\ GmReturns /\ ~IsFile(fs)) => (have_events' = FALSE /\ ret' = Ok(<<>>))]_vars
    /\ [][(h_pc = "idle" /\ h_pc' = "open") => IsFile(fs)]_vars
    /\ []((~path_existed /\ h_pc # "uninit" /\ h_pc # "failed")
            => (~have_events /\ h_pc \in {"idle", "done", "dropped"} /\ ret \in {NoRet, Ok(<<>>), [tag |-> "Bool", val |-> FALSE]}))

\* C5 witness: the file was removed, the backend reported it, and a
\* get_members call returned the empty sequence with the flag false.
C5_Witness ==
    h_pc = "done" /\ reader = NoReader /\ ret = Ok(<<>>) /\ fs = Absent /\ path_existed /\ notify = "none" /\ ~have_events /\ w_pc = "run"

\* The backend reports a change in this step.
HookFires == w_pc = "run" /\ notify # "none" /\ notify' = "none"

\* C6: the worker reaches its end only from the loop body and only with a
\* construction error that is not a NotifyError; a NotifyError, and every
\* return of the backend's run(), take it back to the top of the loop,
\* where the next registration is enabled; no step of the consumer or of
\* the environment moves the worker.
C6_StopsOnlyOnFatalSetup ==
    /\ [][(w_pc = "body" /\ w_pc' # "body")
            => /\ watcher' = "OtherError" => w_pc' = "terminated"
               /\ watcher' = "NotifyError" => w_pc' = "loop"
               /\ watcher' = "Ok" => w_pc' = "run"
               /\ watcher' \in ConstructOutcomes]_vars
    /\ [][(w_pc = "run" /\ w_pc' # "run") => w_pc' = "loop"]_vars
    /\ [][(w_pc' = "terminated" /\ w_pc # "terminated") => (w_pc = "body" /\ watcher' = "OtherError")]_vars
    /\ [][(handle_vars' # handle_vars \/ env_vars' # env_vars) => (w_pc' = w_pc \/ w_pc = "unspawned")]_vars
    /\ [](w_pc = "loop" => ENABLED MarkThreadAlive)

\* C6 witness: a NotifyError took the worker back to the top of the loop
\* while a get_members call was in progress.
C6_Witness == w_pc = "loop" /\ watcher = "NotifyError" /\ h_pc = "lines"

\* C7: every iteration starts with the registration, so the backend is
\* constructed and run under a live token; the worker unregisters once,
\* with Ok, in the step in which a fatal construction error ends the loop;
\* after that it registers, constructs and calls back no more.
C7_RegisterEachIterationUnregisterOnce ==
    /\ [](w_pc \in {"body", "run"} => checked_thread = "alive")
    /\ [](IF w_pc = "terminated" THEN unregistered = <<"Ok">> ELSE unregistered = <<>>)
    /\ [][(w_pc = "loop" /\ w_pc' # "loop") => (w_pc' = "body" /\ checked_thread' = "alive")]_vars
    /\ [][(watcher' # watcher /\ watcher' # "None") => checked_thread = "alive"]_vars
    /\ [][unregistered' # unregistered => (w_pc = "body" /\ watcher' = "OtherError" /\ w_pc' = "terminated")]_vars
    /\ [][w_pc = "terminated" => (UNCHANGED worker_vars /\ (have_events' => have_events))]_vars

\* C7 witness: the worker has ended and unregistered with Ok, and a change
\* of the file waits that no hook will report.
C7_Witness == w_pc = "terminated" /\ unregistered = <<"Ok">> /\ watcher = "OtherError" /\ notify = "modified"

\* C8: every hook stores true; the flag goes from false to true only in a
\* hook; it goes from true to false only in a get_members step that returns
\* Ok; has_fs_events returns it and leaves it as it is; no step of the
\* worker lowers it.
C8_OneDirectionalHandshake ==
    [][/\ HookFires => have_events'
       /\ (~have_events /\ have_events') => HookFires
       /\ (have_events /\ ~have_events') => (GmReturns /\ ret'.tag = "Ok")
       /\ (h_pc = "idle" /\ ret'.tag = "Bool") => (have_events' = have_events /\ ret'.val = have_events)
       /\ worker_vars' # worker_vars => (have_events => have_events')]_vars

\* C8 witness: the disappearance of the file has been reported and the flag
\* is up.
C8_Witness == have_events /\ fs = Absent /\ path_existed /\ notify = "none" /\ w_pc = "run"

\* get_members returned the lines it read, the file now holds other lines,
\* the backend has reported that write, and the flag is down: the hook fired
\* after the read and before the store of this call.
Swallowed == ReadDone /\ ret.tag = "Ok" /\ IsFile(fs) /\ fs.lines # reader.lines /\ notify = "none" /\ ~have_events

\* C9: a swallowed notification is reachable (the witness), and it stays
\* swallowed: the flag stays down and, until the consumer takes the result
\* or the file changes again, the state stays as it is.
C9_SwallowedStaysLost == [][Swallowed => (~have_events' /\ ((h_pc' = "done" /\ fs' = fs) => Swallowed'))]_vars

\* C9 witness: the swallowed notification.
C9_Witness == Swallowed /\ w_pc = "run"

\* C10 as stated: a call in progress never waits and never spins: in every
\* state of it, whatever the worker is doing, the caller has a step of its
\* own that takes the call forward (to the next line or to its return), so
\* the call returns within the number of lines plus three steps.
C10_CallAdvances == h_pc \in {"open", "lines"} => ENABLED <<CallStep>>_handle_vars

\* C11: the polling constructor is called exactly when the value read from
\* HAB_STUDIO_HOST_ARCH is "aarch64-macos"; every other value, and no value,
\* lead to default_file_watcher; each pass of the loop body decides it anew
\* from the value that pass reads.
C11_PollingIffRecognizedArch ==
    /\ [](watcher # "None" =>
            /\ backend \in {"poll_file_watcher", "default_file_watcher"}
            /\ backend = "poll_file_watcher" <=> arch_type = "aarch64-macos")
    /\ [][(w_pc = "body" /\ w_pc' # "body")
            => /\ arch_type' \in ArchValues
               /\ backend' = IF arch_type' = "aarch64-macos" THEN "poll_file_watcher" ELSE "default_file_watcher"]_vars
    /\ [](w_pc = "body" => \A arch \in ArchValues : ENABLED FileWatcherLoopBody(arch, "Ok"))

\* C11 witness: another set value than the recognized one runs the
\* event-driven backend.
C11_Witness == w_pc = "run" /\ arch_type = "x86_64-linux" /\ backend = "default_file_watcher"

\* A line reader.lines() yields as Ok.
IsReadableLine(raw) == LinesItem(raw).ok

C14_OpenFailureIsIo ==
    /\ [][(h_pc = "open" /\ h_pc' # "open")
            => /\ (h_pc' = "lines" /\ reader'.kind # "none" /\ ret' = NoRet) \/ (h_pc' = "done" /\ ret' = Err("Io"))
               /\ fs.kind = "absent" => (h_pc' = "done" /\ ret' = Err("Io"))
               /\ fs.kind = "file" => h_pc' = "lines"]_vars
    /\ [][(GmReturns /\ ret' = Err("Io"))
            => (h_pc = "open" /\ fs.kind # "file" /\ have_events' = have_events)]_vars
    /\ [](Err("Io") # Err("NameLookup") /\ Err("Io") # Ok(<<>>))

C14_Witness ==
    /\ h_pc = "done"
    /\ ret = Err("Io")
    /\ fs = Absent
    /\ path_existed
    /\ reader = NoReader

\* The line resolves: a literal address always, a host name while the name
\* service answers, a blank line never.
Resolves(raw, up) == raw = LineIpPort \/ (raw = LineHost /\ up)

\* What get_members returns for the lines of a regular file and the state
\* of the name service, written from the file alone.
RECURSIVE ExpectedFromLines(_, _, _)
ExpectedFromLines(lines, up, acc) ==
    IF lines = <<>> THEN Ok(acc)
    ELSE IF Head(lines) = InvalidUtf8 THEN ExpectedFromLines(Tail(lines), up, acc)
    ELSE IF Resolves(Head(lines), up) THEN ExpectedFromLines(Tail(lines), up, Append(acc, ExpectedMember(Head(lines))))
    ELSE Err("NameLookup")

\* What get_members returns for the entry at the path and the state of the
\* name service when neither changes during the call.
Expected(entry, up) == IF entry.kind = "file" THEN ExpectedFromLines(entry.lines, up, <<>>) ELSE Ok(<<>>)

\* C15: no step of the worker changes anything of the handle or of a call
\* in progress; run fails exactly when the thread is not spawned; and a
\* get_members call during which the file and the name service stay as they
\* are returns a value fixed by those two alone, so the same value in every
\* state of the worker, and never an error other than its own two.
C15_WorkerErrorsNotSurfaced ==
    /\ [][(w_pc # "unspawned" /\ worker_vars' # worker_vars) => UNCHANGED handle_vars]_vars
    /\ [](h_pc = "failed" <=> (w_pc = "unspawned" /\ ret = Err("Io")))
    /\ []((h_pc = "done" /\ ret.tag # "Bool" /\ clean) => ret = Expected(fs, dns_up))
    /\ [](h_pc = "done" => ret.tag \in {"Bool", "Ok", "Io", "NameLookup"})

C15_Witness ==
    /\ h_pc = "done"
    /\ clean
    /\ w_pc = "terminated"
    /\ watcher = "OtherError"
    /\ ret.tag = "Ok"
    /\ Len(ret.members) = 2

\* C16: dropping the handle changes nothing of the worker, of the flag or
\* of the watched path; with the handle dropped the worker can still start
\* the next iteration, construct a backend with any outcome, leave run(),
\* and a pending change still fires its hook and raises the flag; and the
\* worker then terminates only from the loop body on a construction error
\* that is not a notify error.
C16_DropDoesNotStopWorker ==
    /\ [][(h_pc # "dropped" /\ h_pc' = "dropped") => UNCHANGED <<env_vars, have_events, worker_vars>>]_vars
    /\ [](h_pc = "dropped"
            => /\ w_pc = "loop" => ENABLED MarkThreadAlive
               /\ w_pc = "body" => \A arch \in ArchValues, res \in ConstructOutcomes : ENABLED FileWatcherLoopBody(arch, res)
               /\ w_pc = "run" => \A res \in {"Ok", "Err"} : ENABLED WatcherRunReturns(res)
               /\ (w_pc = "run" /\ notify # "none") => ENABLED (Hook(notify) /\ have_events'))
    /\ [][(h_pc = "dropped" /\ w_pc # "terminated" /\ w_pc' = "terminated")
            => (w_pc = "body" /\ watcher' = "OtherError")]_vars

C16_Witness ==
    /\ h_pc = "dropped"
    /\ w_pc = "run"
    /\ Len(unregistered) = 0
    /\ notify = "modified"
    /\ ~have_events

\* C17: every step of the spawned worker that changes the worker's own
\* state (registration, construction and its failures, leaving run(), the
\* restart) leaves the flag as it is; a hook of any backend incarnation
\* raises the flag has_fs_events reads; and a raised flag is lowered only
\* by a get_members call that returns Ok.
C17_RestartKeepsFlag ==
    /\ [][(w_pc # "unspawned" /\ worker_vars' # worker_vars) => have_events' = have_events]_vars
    /\ [][HookFires => have_events']_vars
    /\ [][(h_pc = "idle" /\ h_pc' = "done" /\ ret'.tag = "Bool") => ret'.val = have_events]_vars
    /\ [][(have_events /\ ~have_events') => (GmReturns /\ ret'.tag = "Ok")]_vars

C17_Witness ==
    /\ have_events
    /\ w_pc = "body"
    /\ watcher = "None"
    /\ h_pc = "done"
    /\ ret = [tag |-> "Bool", val |-> TRUE]

\* C18: a terminated worker stays terminated; from then on no step raises
\* the flag and no hook can fire, so once a get_members call has lowered
\* it the flag stays lowered and has_fs_events returns false, whatever
\* happens to the file.
C18_NoSignalAfterTermination ==
    /\ [][w_pc = "terminated" => (w_pc' = "terminated" /\ (have_events' => have_events))]_vars
    /\ [](w_pc = "terminated" => \A kind \in {"appeared", "modified", "disappeared"} : ~ENABLED Hook(kind))
    /\ [][(w_pc = "terminated" /\ ~have_events /\ h_pc = "idle" /\ h_pc' = "done" /\ ret'.tag = "Bool")
            => ret'.val = FALSE]_vars

C18_Witness ==
    /\ w_pc = "terminated"
    /\ ~have_events
    /\ notify = "modified"
    /\ fs.kind = "file"
    /\ h_pc = "done"
    /\ ret = [tag |-> "Bool", val |-> FALSE]

\* C19: the two arms of the loop body decide alike. For each outcome of
\* the construction the PollWatcherType arm and the `_` arm give the same
\* decision; whichever backend the body constructs, Ok enters run(), a
\* notify error goes round the loop, any other error terminates; and
\* whichever backend is running, run() returning, with an error or
\* without, goes round the loop.
C19_ArmsDecideAlike ==
    /\ [](\A res \in ConstructOutcomes : PollArm(res) = DefaultArm(res))
    /\ [][(w_pc = "body" /\ w_pc' # "body")
            => /\ backend' \in {"poll_file_watcher", "default_file_watcher"}
               /\ watcher' \in ConstructOutcomes
               /\ w_pc' = CASE watcher' = "Ok" -> "run"
                             [] watcher' = "NotifyError" -> "loop"
                             [] watcher' = "OtherError" -> "terminated"]_vars
    /\ [][(w_pc = "run" /\ w_pc' # "run") => (w_pc' = "loop" /\ backend' = backend)]_vars
    /\ [](w_pc = "run" => \A res \in {"Ok", "Err"} : ENABLED WatcherRunReturns(res))

C19_Witness ==
    /\ w_pc = "terminated"
    /\ backend = "poll_file_watcher"
    /\ watcher = "OtherError"
    /\ unregistered = <<"Ok">>

====
